---- MODULE Spec2Model ----
(***************************************************************************)
(* Model of job.py: a single-threaded job that creates the resources of a  *)
(* multi-document YAML manifest, waits for the first tracked Deployment to *)
(* become ready, sleeps, and deletes what it tracked in reverse order.     *)
(*                                                                         *)
(* The Kubernetes API server, the YAML file and the watch stream are the   *)
(* environment: their answers are inputs drawn from bounded sets.          *)
(***************************************************************************)
EXTENDS Integers, Sequences, FiniteSets, TLC

\* ---------------------------------------------------------------- bounds
MaxDocs == 2        \* documents in the manifest stream
MaxListLen == 2     \* objects in a list returned by one create call
MaxEvents == 2      \* events delivered by one watch stream
MaxPre == 1         \* resources of the manifest present in the cluster before the run

\* ------------------------------------------------------------- constants
HttpConflict == 409
HttpNotFound == 404
\* Statuses of API rejections that are neither Conflict nor NotFound.
FailureStatuses == {403, 500}

NoneVal == -1       \* Python None in an integer field
NoName == ""        \* Python None / missing key in a string field (falsy)
NotExited == -1     \* the process is still running

Kinds == {"Deployment", "Service", "ConfigMap"}
Names == {"app", "db"}

Ident(k, n) == [kind |-> k, name |-> n]

\* The resource identities of the model: two Deployments, a Service and a
\* kind the delete loop has no branch for.
Identities ==
    {Ident("Deployment", "app"), Ident("Deployment", "db"),
     Ident("Service", "app"), Ident("ConfigMap", "db")}

\* The identities the manifest's complete documents name: one the delete
\* loop has a branch for and one it has none for.
ManifestIdentities == {Ident("Deployment", "app"), Ident("ConfigMap", "db")}

Range(s) == {s[i] : i \in 1..Len(s)}

SeqsUpTo(S, n) == UNION {[1..k -> S] : k \in 0..n}

\* --------------------------------------------------- manifest documents
\* What yaml.safe_load_all yields for one document of the stream:
\*   malformed  - the text does not parse (yaml.YAMLError when reached)
\*   empty      - a falsy value (None, {}, [], '', 0)
\*   nonmapping - a truthy value that is not a dict (list, str, number)
\*   mapping    - a dict; kind = NoName when 'kind' is missing or falsy;
\*                meta tells what 'metadata' holds; name = NoName when
\*                metadata has no truthy 'name'
MappingDocs ==
    {[shape |-> "mapping", kind |-> r.kind, meta |-> "mapping", name |-> r.name] :
        r \in ManifestIdentities}
    \cup
    {[shape |-> "mapping", kind |-> NoName, meta |-> "mapping", name |-> "app"],
     [shape |-> "mapping", kind |-> "Deployment", meta |-> "mapping", name |-> NoName],
     [shape |-> "mapping", kind |-> "Deployment", meta |-> "absent", name |-> NoName],
     [shape |-> "mapping", kind |-> "Deployment", meta |-> "null", name |-> NoName]}

OtherDocs ==
    {[shape |-> s, kind |-> NoName, meta |-> "absent", name |-> NoName] :
        s \in {"malformed", "empty", "nonmapping"}}

Docs == MappingDocs \cup OtherDocs

Streams == [absent : BOOLEAN, docs : SeqsUpTo(Docs, MaxDocs)]

Truthy(s) == s # NoName

\* manifest.get('kind') and manifest.get('metadata', {}).get('name') are
\* attribute lookups on the document: .get on a non-dict document, or on
\* a metadata value that is None, raises AttributeError.
GetRaises(m) == m.shape = "nonmapping" \/ (m.shape = "mapping" /\ m.meta = "null")

\* list(yaml.safe_load_all(f)): every document of the stream is parsed
\* before the loop starts; a syntax error anywhere raises yaml.YAMLError
\* and no document is handed to the loop.
\* Variant: a loader that hands over the documents before the first
\* malformed one and reports no error.
LazyLoadAll(stream) ==
    LET bad == {i \in 1..Len(stream.docs) : stream.docs[i].shape = "malformed"}
        first == IF bad = {} THEN Len(stream.docs) + 1
                 ELSE CHOOSE i \in bad : \A j \in bad : i <= j
    IN  IF stream.absent
        THEN [err |-> "FileNotFoundError", docs |-> <<>>]
        ELSE [err |-> "none", docs |-> SubSeq(stream.docs, 1, first - 1)]

LoadAll(stream) ==
    IF stream.absent
    THEN [err |-> "FileNotFoundError", docs |-> <<>>]
    ELSE IF \E i \in 1..Len(stream.docs) : stream.docs[i].shape = "malformed"
         THEN [err |-> "YAMLError", docs |-> <<>>]
         ELSE [err |-> "none", docs |-> stream.docs]

\* ------------------------------------------------------- create results
\* An object returned by utils.create_from_dict: its identity in the
\* cluster, and whether it passes the hasattr checks (kind, metadata,
\* metadata.name).
RetObjs == {[kind |-> r.kind, name |-> r.name, shaped |-> b] : r \in Identities, b \in BOOLEAN}

ObjIdent(o) == Ident(o.kind, o.name)

Distinct(s) == \A i, j \in 1..Len(s) : i # j => ObjIdent(s[i]) # ObjIdent(s[j])

\* The answers the API can give to a create of descriptor d when the
\* cluster holds the identities in cl: Conflict exactly when the identity
\* exists; a success returns objects that did not exist before.
CreateOutcomes(d, cl) ==
    {[tag |-> "ApiException", status |-> st, obj |-> <<>>] : st \in FailureStatuses}
    \cup
    {[tag |-> "Exception", status |-> 0, obj |-> <<>>]}
    \cup
    (IF d \in cl
     THEN {[tag |-> "ApiException", status |-> HttpConflict, obj |-> <<>>]}
     ELSE {[tag |-> "object", status |-> 0, obj |-> <<o>>] :
              o \in {x \in RetObjs : ObjIdent(x) \notin cl}}
          \cup
          {[tag |-> "list", status |-> 0, obj |-> s] :
              s \in {x \in SeqsUpTo(RetObjs, MaxListLen) :
                        Distinct(x) /\ \A i \in 1..Len(x) : ObjIdent(x[i]) \notin cl}})

\* What the API answered to a create call.
Answer(out) ==
    IF out.tag \in {"object", "list"} THEN "created"
    ELSE IF out.tag = "ApiException" /\ out.status = HttpConflict THEN "conflict"
    ELSE IF out.tag = "ApiException" THEN "api_error"
    ELSE "exception"

\* Variant: every HTTP error status taken for a Conflict.
AnyHttpErrorIsConflict(status) == status >= 400

\* e.status == 409
IsConflict(status) == status = HttpConflict

RECURSIVE TrackEveryItem(_)
\* Variant: every item of the list tracked, whatever its structure.
TrackEveryItem(s) ==
    IF s = <<>> THEN <<>> ELSE <<ObjIdent(Head(s))>> \o TrackEveryItem(Tail(s))

RECURSIVE TrackList(_)
\* Ledger entries for the items of a returned list: an item of unexpected
\* structure is not tracked.
TrackList(s) ==
    IF s = <<>> THEN <<>>
    ELSE (IF Head(s).shaped THEN <<ObjIdent(Head(s))>> ELSE <<>>) \o TrackList(Tail(s))

\* Variant: the manifest's kind/name recorded next to the object's own.
TrackBoth(o, d) == <<ObjIdent(o), d>>

\* Ledger entry for a single returned object: its own identity, or the
\* manifest's kind/name when the object has an unexpected structure.
TrackObject(o, d) == IF o.shaped THEN <<ObjIdent(o)>> ELSE <<d>>

\* Variant: a Conflict leaves the ledger as it is.
TrackNothing(d) == <<>>

\* Ledger entry on a Conflict answer: the manifest's kind/name.
TrackConflict(d) == <<d>>

\* created_obj_or_list before the first successful create call, and after
\* the function is left.
NoResult == [tag |-> "none", obj |-> <<>>]

\* ------------------------------------------------------------- variables
VARIABLES
    stream,                  \* the YAML file (input)
    cluster,                 \* identities existing in the namespace
    created_by_run,          \* identities this run's create calls created
    pc,                      \* position of main()
    manifests,               \* list(yaml.safe_load_all(f))
    idx,                     \* index of the next manifest of the loop
    created_resources_info,  \* the ledger
    created_obj_or_list,     \* what the last successful create call returned: [tag, obj]
    create_requests,         \* create calls made: [doc, kind, name, answer]
    skipped,                 \* documents skipped as incomplete
    raised,                  \* type of the exception that reached main
    raised_in,               \* function it came out of
    exit_code,               \* process exit status, NotExited while running
    subscriptions,           \* field selectors of the watch streams opened
    watch_open,              \* a watch stream is open (not stopped)
    watch_outcome,           \* how wait_for_deployment_ready ended
    events_consumed,         \* events taken from the open stream (0 when none is open)
    deployment_bound,        \* local 'deployment' is assigned (FALSE outside the function)
    hold_count,              \* time.sleep(WAIT_SECONDS) calls completed
    del_idx,                 \* position in reversed(created_resources_info)
    delete_visits,           \* ledger entries visited by the delete loop
    delete_requests          \* delete calls made: [kind, name]

vars == <<stream, cluster, created_by_run, pc, manifests, idx,
          created_resources_info, created_obj_or_list, create_requests, skipped,
          raised, raised_in,
          exit_code, subscriptions, watch_open, watch_outcome, events_consumed,
          deployment_bound, hold_count, del_idx, delete_visits, delete_requests>>

createVars == <<manifests, idx, created_resources_info, created_obj_or_list,
                create_requests, skipped>>
watchVars == <<subscriptions, watch_open, watch_outcome, events_consumed, deployment_bound>>
deleteVars == <<del_idx, delete_visits, delete_requests>>
envVars == <<stream, cluster, created_by_run>>
exitVars == <<raised, raised_in, exit_code>>

Init ==
    /\ stream \in Streams
    /\ cluster \in {c \in SUBSET ManifestIdentities : Cardinality(c) <= MaxPre}
    /\ created_by_run = {}
    /\ pc = "main"
    /\ manifests = <<>>
    /\ idx = 1
    /\ created_resources_info = <<>>
    /\ created_obj_or_list = NoResult
    /\ create_requests = <<>>
    /\ skipped = {}
    /\ raised = "none"
    /\ raised_in = "none"
    /\ exit_code = NotExited
    /\ subscriptions = <<>>
    /\ watch_open = FALSE
    /\ watch_outcome = "none"
    /\ events_consumed = 0
    /\ deployment_bound = FALSE
    /\ hold_count = 0
    /\ del_idx = 1
    /\ delete_visits = <<>>
    /\ delete_requests = <<>>

\* Variant: the exception is recorded and the run goes on.
RecordOnly(type, fn) ==
    /\ raised' = type
    /\ raised_in' = fn
    /\ UNCHANGED <<exit_code, pc>>

\* An exception that leaves a function reaches main's except clause:
\* it is printed and the process ends with os._exit(1).
Abort(type, fn) ==
    /\ raised' = type
    /\ raised_in' = fn
    /\ exit_code' = 1
    /\ pc' = "exited"

\* ------------------------------------------- create_resources_from_yaml
\* Reset the ledger, open the file and load every document.
LoadManifests ==
    /\ pc = "main"
    /\ created_resources_info' = <<>>
    /\ LET r == LoadAll(stream)
       IN  IF r.err # "none"
           THEN /\ Abort(r.err, "create_resources_from_yaml")
                /\ UNCHANGED manifests
           ELSE /\ manifests' = r.docs
                /\ pc' = "create"
                /\ UNCHANGED exitVars
    /\ UNCHANGED <<idx, created_obj_or_list, create_requests, skipped, envVars,
                   watchVars, hold_count, deleteVars>>

\* if not manifest: continue
CreateSkipEmpty ==
    /\ pc = "create"
    /\ idx <= Len(manifests)
    /\ manifests[idx].shape = "empty"
    /\ idx' = idx + 1
    /\ UNCHANGED <<pc, manifests, created_resources_info, created_obj_or_list,
                   create_requests, skipped,
                   envVars, exitVars, watchVars, hold_count, deleteVars>>

\* manifest.get(...) raises AttributeError outside the inner try; the
\* outer try names only FileNotFoundError and yaml.YAMLError.
CreateGetRaises ==
    /\ pc = "create"
    /\ idx <= Len(manifests)
    /\ manifests[idx].shape # "empty"
    /\ GetRaises(manifests[idx])
    /\ Abort("AttributeError", "create_resources_from_yaml")
    /\ created_obj_or_list' = NoResult
    /\ UNCHANGED <<manifests, idx, created_resources_info, create_requests, skipped,
                   envVars, watchVars, hold_count, deleteVars>>

\* if not kind or not name: print, continue
CreateSkipIncomplete ==
    /\ pc = "create"
    /\ idx <= Len(manifests)
    /\ manifests[idx].shape = "mapping"
    /\ ~GetRaises(manifests[idx])
    /\ ~Truthy(manifests[idx].kind) \/ ~Truthy(manifests[idx].name)
    /\ skipped' = skipped \cup {idx}
    /\ idx' = idx + 1
    /\ UNCHANGED <<pc, manifests, created_resources_info, created_obj_or_list,
                   create_requests,
                   envVars, exitVars, watchVars, hold_count, deleteVars>>

\* utils.create_from_dict(...) and the handling of its result.
CreateSubmit ==
    /\ pc = "create"
    /\ idx <= Len(manifests)
    /\ manifests[idx].shape = "mapping"
    /\ ~GetRaises(manifests[idx])
    /\ Truthy(manifests[idx].kind) /\ Truthy(manifests[idx].name)
    /\ LET d == Ident(manifests[idx].kind, manifests[idx].name)
       IN  \E out \in CreateOutcomes(d, cluster) :
             /\ create_requests' = Append(create_requests,
                    [doc |-> idx, kind |-> d.kind, name |-> d.name, answer |-> Answer(out)])
             /\ CASE out.tag = "list" ->
                        /\ created_obj_or_list' = [tag |-> "list", obj |-> out.obj]
                        /\ created_resources_info' = created_resources_info \o TrackList(out.obj)
                        /\ cluster' = cluster \cup {ObjIdent(out.obj[i]) : i \in 1..Len(out.obj)}
                        /\ created_by_run' = created_by_run
                                \cup {ObjIdent(out.obj[i]) : i \in 1..Len(out.obj)}
                        /\ idx' = idx + 1
                        /\ UNCHANGED <<pc, exitVars>>
                  [] out.tag = "object" ->
                        /\ created_obj_or_list' = [tag |-> "object", obj |-> out.obj]
                        /\ created_resources_info' =
                                created_resources_info \o TrackObject(out.obj[1], d)
                        /\ cluster' = cluster \cup {ObjIdent(out.obj[1])}
                        /\ created_by_run' = created_by_run \cup {ObjIdent(out.obj[1])}
                        /\ idx' = idx + 1
                        /\ UNCHANGED <<pc, exitVars>>
                  [] out.tag = "ApiException" /\ IsConflict(out.status) ->
                        /\ created_resources_info' = created_resources_info \o TrackConflict(d)
                        /\ idx' = idx + 1
                        /\ UNCHANGED <<pc, exitVars, cluster, created_by_run, created_obj_or_list>>
                  [] out.tag = "ApiException" /\ ~IsConflict(out.status) ->
                        /\ Abort("ApiException", "create_resources_from_yaml")
                        /\ created_obj_or_list' = NoResult
                        /\ UNCHANGED <<idx, created_resources_info, cluster, created_by_run>>
                  [] out.tag = "Exception" ->
                        /\ Abort("Exception", "create_resources_from_yaml")
                        /\ created_obj_or_list' = NoResult
                        /\ UNCHANGED <<idx, created_resources_info, cluster, created_by_run>>
    /\ UNCHANGED <<stream, manifests, skipped, watchVars, hold_count, deleteVars>>

\* The loop is exhausted: create_resources_from_yaml returns.
CreateReturn ==
    /\ pc = "create"
    /\ idx > Len(manifests)
    /\ pc' = "wait"
    /\ created_obj_or_list' = NoResult
    /\ UNCHANGED <<manifests, idx, created_resources_info, create_requests, skipped,
                   envVars, exitVars, watchVars, hold_count, deleteVars>>

\* ------------------------------------------- wait_for_deployment_ready
RECURSIVE LastDeployment(_)
\* Variant: the search without the break (the last Deployment wins).
LastDeployment(ledger) ==
    IF ledger = <<>> THEN NoName
    ELSE IF ledger[Len(ledger)].kind = "Deployment" THEN ledger[Len(ledger)].name
         ELSE LastDeployment(SubSeq(ledger, 1, Len(ledger) - 1))

RECURSIVE FirstDeployment(_)
\* for res_info in created_resources_info:
\*     if res_info['kind'] == 'Deployment': take its name, break
FirstDeployment(ledger) ==
    IF ledger = <<>> THEN NoName
    ELSE IF Head(ledger).kind = "Deployment" THEN Head(ledger).name
         ELSE FirstDeployment(Tail(ledger))

\* The object of a watch event.  has_status / has_spec: the attribute is
\* not None; an absent status carries no ready_replicas and no
\* observed_generation, an absent spec no replicas.  metadata.generation
\* is assigned by the API server and is always a number.
ReplicaVals == {NoneVal, 2, 3}
GenerationVals == {1, 2}
CurrentGeneration == {2}

EventObjs ==
    {o \in [has_status : BOOLEAN, has_spec : BOOLEAN,
            ready_replicas : ReplicaVals, replicas : {NoneVal, 3},
            generation : CurrentGeneration,
            observed_generation : GenerationVals \cup {NoneVal}] :
        /\ (~o.has_status => o.ready_replicas = NoneVal /\ o.observed_generation = NoneVal)
        /\ (~o.has_spec => o.replicas = NoneVal)}

EventTypes == {"ADDED", "MODIFIED", "DELETED", "ERROR", "BOOKMARK"}

NoObject == [has_status |-> FALSE, has_spec |-> FALSE, ready_replicas |-> NoneVal,
             replicas |-> NoneVal, generation |-> 2, observed_generation |-> NoneVal]

\* The object of an event that is not ADDED or MODIFIED is never read.
Events ==
    [type : {"ADDED", "MODIFIED"}, object : EventObjs]
    \cup [type : EventTypes \ {"ADDED", "MODIFIED"}, object : {NoObject}]

\* Variant: the condition without the generation comparison.
ReadyIgnoringGeneration(d) ==
    /\ d.has_status
    /\ d.ready_replicas = d.replicas

\* deployment.status and
\* deployment.status.ready_replicas == deployment.spec.replicas and
\* deployment.metadata.generation == deployment.status.observed_generation
IsReady(d) ==
    /\ d.has_status
    /\ d.ready_replicas = d.replicas
    /\ d.generation = d.observed_generation

\* event['type'] == 'ADDED' or event['type'] == 'MODIFIED'
IsStatusEvent(e) == e.type \in {"ADDED", "MODIFIED"}

\* Evaluating the condition reads deployment.spec.replicas once
\* deployment.status is truthy: AttributeError when spec is None.
ConditionRaises(d) == d.has_status /\ ~d.has_spec

\* How the body of the for loop ends for event e.
EventResult(e, bound) ==
    IF IsStatusEvent(e)
    THEN IF ConditionRaises(e.object) THEN "error"
         ELSE IF IsReady(e.object) THEN "ready"
         ELSE "continue"
    ELSE IF bound THEN "continue"
         ELSE "error"     \* 'deployment' is read before assignment

\* Variant: a stop that leaves the stream as it is.
LeaveAsIs(open) == open

\* w.stop(): the stream is closed, whether it was open or not.
WStop(open) == FALSE

\* No Deployment in the ledger: print and return.
WaitNoDeployment ==
    /\ pc = "wait"
    /\ ~Truthy(FirstDeployment(created_resources_info))
    /\ watch_outcome' = "noop"
    /\ pc' = "hold"
    /\ UNCHANGED <<subscriptions, watch_open, events_consumed, deployment_bound,
                   createVars, envVars, exitVars, hold_count, deleteVars>>

\* w = Watch(); w.stream(list_namespaced_deployment, field_selector=name, ...)
WaitSubscribe ==
    /\ pc = "wait"
    /\ Truthy(FirstDeployment(created_resources_info))
    /\ subscriptions' = Append(subscriptions, FirstDeployment(created_resources_info))
    /\ watch_open' = TRUE
    /\ pc' = "watching"
    /\ UNCHANGED <<watch_outcome, events_consumed, deployment_bound,
                   createVars, envVars, exitVars, hold_count, deleteVars>>

\* One iteration of the for loop over the stream, for event e.  Every way
\* out of the function passes through finally: w.stop().
WatchEvent(e) ==
    /\ pc = "watching"
    /\ events_consumed < MaxEvents
    /\ LET r == EventResult(e, deployment_bound)
       IN  IF r = "continue"
           THEN /\ events_consumed' = events_consumed + 1
                /\ deployment_bound' = (deployment_bound \/ IsStatusEvent(e))
                /\ UNCHANGED <<pc, watch_open, watch_outcome>>
           ELSE /\ watch_outcome' = r
                /\ watch_open' = WStop(watch_open)
                /\ events_consumed' = 0
                /\ deployment_bound' = FALSE
                /\ pc' = "hold"
    /\ UNCHANGED <<subscriptions, createVars, envVars, exitVars, hold_count, deleteVars>>

WatchAnyEvent == \E e \in Events : WatchEvent(e)

\* The stream ends (timeout_seconds elapsed): the loop falls through.
WatchTimeout ==
    /\ pc = "watching"
    /\ watch_outcome' = "timeout"
    /\ watch_open' = WStop(watch_open)
    /\ pc' = "hold"
    /\ deployment_bound' = FALSE
    /\ events_consumed' = 0
    /\ UNCHANGED <<subscriptions,
                   createVars, envVars, exitVars, hold_count, deleteVars>>

\* The stream raises (ApiException or any other Exception): printed.
WatchStreamError ==
    /\ pc = "watching"
    /\ watch_outcome' = "error"
    /\ watch_open' = WStop(watch_open)
    /\ pc' = "hold"
    /\ deployment_bound' = FALSE
    /\ events_consumed' = 0
    /\ UNCHANGED <<subscriptions,
                   createVars, envVars, exitVars, hold_count, deleteVars>>

\* ------------------------------------------------------------------ main
\* Variant: main goes from the wait to the delete without sleeping.
NoHold ==
    /\ pc = "hold"
    /\ pc' = "delete"
    /\ UNCHANGED <<hold_count, createVars, envVars, exitVars, watchVars, deleteVars>>

\* time.sleep(WAIT_SECONDS)
Hold ==
    /\ pc = "hold"
    /\ hold_count' = hold_count + 1
    /\ pc' = "delete"
    /\ UNCHANGED <<createVars, envVars, exitVars, watchVars, deleteVars>>

\* ---------------------------------------------- delete_created_resources
\* Variant: the ledger iterated in append order.
Forward(s) == s

\* reversed(created_resources_info)
Reversed(s) == [i \in 1..Len(s) |-> s[Len(s) + 1 - i]]

\* Variant: the if/elif chain without the Service branch.
DeploymentOnlyDeleteCall(kind) ==
    IF kind = "Deployment" THEN "delete_namespaced_deployment" ELSE "none"

\* Variant: a chain whose last branch takes every remaining kind.
ServiceOrAnyDeleteCall(kind) ==
    IF kind = "Deployment" THEN "delete_namespaced_deployment"
    ELSE "delete_namespaced_service"

\* The API call the if/elif chain selects for a kind, "none" for the else
\* branch (unsupported kind: print only).
DeleteCall(kind) ==
    IF kind = "Deployment" THEN "delete_namespaced_deployment"
    ELSE IF kind = "Service" THEN "delete_namespaced_service"
    ELSE "none"

\* The answers the API can give to a delete of identity r.
DeleteOutcomes(r, cl) ==
    {[tag |-> "ApiException", status |-> st] : st \in FailureStatuses}
    \cup
    {[tag |-> "Exception", status |-> 0]}
    \cup
    (IF r \in cl THEN {[tag |-> "ok", status |-> 0]}
     ELSE {[tag |-> "ApiException", status |-> HttpNotFound]})

\* One iteration of the delete loop on an unsupported kind.
DeleteSkipUnsupported ==
    /\ pc = "delete"
    /\ del_idx <= Len(created_resources_info)
    /\ LET r == Reversed(created_resources_info)[del_idx]
       IN  /\ DeleteCall(r.kind) = "none"
           /\ delete_visits' = Append(delete_visits, r)
    /\ del_idx' = del_idx + 1
    /\ UNCHANGED <<pc, delete_requests, createVars, envVars, exitVars, watchVars, hold_count>>

\* One iteration of the delete loop on a Deployment or a Service.
\* except ApiException absorbs every API status; any other exception
\* leaves the function.
DeleteRequest ==
    /\ pc = "delete"
    /\ del_idx <= Len(created_resources_info)
    /\ LET r == Reversed(created_resources_info)[del_idx]
       IN  /\ DeleteCall(r.kind) # "none"
           /\ delete_visits' = Append(delete_visits, r)
           /\ delete_requests' = Append(delete_requests, r)
           /\ \E out \in DeleteOutcomes(r, cluster) :
                IF out.tag = "Exception"
                THEN /\ Abort("Exception", "delete_created_resources")
                     /\ UNCHANGED <<del_idx, cluster>>
                ELSE /\ del_idx' = del_idx + 1
                     /\ cluster' = IF out.tag = "ok" THEN cluster \ {r} ELSE cluster
                     /\ UNCHANGED <<pc, exitVars>>
    /\ UNCHANGED <<stream, created_by_run, createVars, watchVars, hold_count>>

\* Variant: the ledger is emptied when the delete loop is done.
DeleteReturnClearing ==
    /\ pc = "delete"
    /\ del_idx > Len(created_resources_info)
    /\ created_resources_info' = <<>>
    /\ pc' = "exited"
    /\ exit_code' = 0
    /\ UNCHANGED <<raised, raised_in, manifests, idx, created_obj_or_list,
                   create_requests, skipped, envVars, watchVars, hold_count, deleteVars>>

\* The delete loop is exhausted; main prints and returns: exit status 0.
DeleteReturn ==
    /\ pc = "delete"
    /\ del_idx > Len(created_resources_info)
    /\ pc' = "exited"
    /\ exit_code' = 0
    /\ UNCHANGED <<raised, raised_in, createVars, envVars, watchVars, hold_count, deleteVars>>

Next ==
    \/ LoadManifests
    \/ CreateSkipEmpty
    \/ CreateGetRaises
    \/ CreateSkipIncomplete
    \/ CreateSubmit
    \/ CreateReturn
    \/ WaitNoDeployment
    \/ WaitSubscribe
    \/ WatchAnyEvent
    \/ WatchTimeout
    \/ WatchStreamError
    \/ Hold
    \/ DeleteSkipUnsupported
    \/ DeleteRequest
    \/ DeleteReturn

Spec == Init /\ [][Next]_vars

TypeOK ==
    /\ pc \in {"main", "create", "wait", "watching", "hold", "delete", "exited"}
    /\ exit_code \in {NotExited, 0, 1}
    /\ idx \in 1..(MaxDocs + 1)

\* ============================================================ properties
CompletedNormally == pc = "exited" /\ exit_code = 0

SupportedKinds == {"Deployment", "Service"}

\* Create returned to main (no exception left create_resources_from_yaml).
CreateReturned ==
    /\ pc \notin {"main", "create"}
    /\ raised_in # "create_resources_from_yaml"

\* C1 (as stated): on every run that exits 0, every resource the run's
\* create calls created has had a delete request issued for it.
C1_EveryCreatedResourceDeleted ==
    CompletedNormally =>
        \A r \in created_by_run : r \in Range(delete_requests)

\* C1 (amended): on every run that exits 0, every resource the run created
\* that is recorded in the ledger and is a Deployment or a Service has had a
\* delete request issued for it.
C1_TrackedSupportedDeleted ==
    CompletedNormally =>
        \A r \in created_by_run :
            (r \in Range(created_resources_info) /\ r.kind \in SupportedKinds)
                => r \in Range(delete_requests)

C1_Witness ==
    /\ CompletedNormally
    /\ \E r \in created_by_run :
        /\ r \in Range(created_resources_info)
        /\ r.kind = "Service"
        /\ r \in Range(delete_requests)
    /\ \E r \in created_by_run : r \notin Range(created_resources_info)

\* C2: when the same descriptor is submitted twice in one run and the
\* second attempt is answered Conflict, the ledger holds exactly one entry
\* for that kind/name after Create.
C2_IdempotentCreation ==
    CreateReturned =>
        \A i, j \in 1..Len(create_requests) :
            (/\ i < j
             /\ create_requests[i].kind = create_requests[j].kind
             /\ create_requests[i].name = create_requests[j].name
             /\ create_requests[j].answer = "conflict")
            => Cardinality({k \in 1..Len(created_resources_info) :
                    created_resources_info[k] =
                        Ident(create_requests[j].kind, create_requests[j].name)}) = 1

\* C3: the delete loop visits the ledger entries in exactly the reverse of
\* their append order, and on a run that exits 0 it has visited them all.
C3_ReverseDeletionOrder ==
    /\ Len(delete_visits) <= Len(created_resources_info)
    /\ \A k \in 1..Len(delete_visits) :
        delete_visits[k] = created_resources_info[Len(created_resources_info) + 1 - k]
    /\ CompletedNormally => Len(delete_visits) = Len(created_resources_info)

C3_Witness ==
    /\ CompletedNormally
    /\ Len(delete_visits) = 3
    /\ delete_visits[1] # delete_visits[2]
    /\ delete_visits[2] # delete_visits[3]
    /\ delete_visits[1] # delete_visits[3]
    /\ delete_visits[1] = created_resources_info[3]
    /\ cluster \cap Range(delete_requests) # {}

\* C4: once the Delete phase has started, whatever the delete calls
\* answer, the phase never raises and every ledger entry is attempted.
C4_BestEffortCleanup ==
    (pc = "exited" /\ hold_count = 1) =>
        /\ raised_in # "delete_created_resources"
        /\ Len(delete_visits) = Len(created_resources_info)

\* C5: whenever Create returns without a fatal error, Wait does not raise,
\* Hold and Delete follow, and the process ends with exit status 0.
C5_NormalCompletionExitsZero ==
    /\ (CreateReturned /\ pc \in {"hold", "delete", "exited"}) => watch_outcome # "none"
    /\ (CreateReturned /\ pc \in {"delete", "exited"}) => hold_count = 1
    /\ (CreateReturned /\ pc = "exited") =>
            /\ raised_in # "wait_for_deployment_ready"
            /\ exit_code = 0

\* C6: a create request answered with a failure other than Conflict ends
\* the process with a non-zero status; it is the last create request, and
\* no watch subscription, no Hold and no delete request happens.
C6_CreateFailureIsFatal ==
    \A i \in 1..Len(create_requests) :
        create_requests[i].answer \in {"api_error", "exception"} =>
            /\ i = Len(create_requests)
            /\ pc = "exited"
            /\ exit_code = 1
            /\ subscriptions = <<>>
            /\ ~watch_open
            /\ hold_count = 0
            /\ delete_visits = <<>>
            /\ delete_requests = <<>>
            /\ created_by_run \subseteq cluster

C6_Witness ==
    /\ pc = "exited"
    /\ Len(create_requests) = 2
    /\ create_requests[2].answer = "api_error"
    /\ created_by_run # {}

StreamMalformed == \E i \in 1..Len(stream.docs) : stream.docs[i].shape = "malformed"

\* C7: when the file is absent or any document of the stream is malformed,
\* no create request is ever submitted, the ledger stays empty, nothing is
\* created, and the process ends with a non-zero status.
C7_ManifestErrorBeforeAnyCreate ==
    (stream.absent \/ StreamMalformed) =>
        /\ create_requests = <<>>
        /\ created_resources_info = <<>>
        /\ created_by_run = {}
        /\ pc \in {"main", "exited"}
        /\ pc = "exited" =>
            /\ exit_code = 1
            /\ raised = (IF stream.absent THEN "FileNotFoundError" ELSE "YAMLError")
            /\ raised_in = "create_resources_from_yaml"

C7_Witness ==
    /\ pc = "exited"
    /\ raised = "YAMLError"
    /\ Len(stream.docs) = 2
    /\ stream.docs[1].shape = "mapping"
    /\ Truthy(stream.docs[1].kind) /\ Truthy(stream.docs[1].name)
    /\ stream.docs[2].shape = "malformed"

\* A non-empty document without a kind or without a name, in every shape.
LacksKindOrName(m) ==
    \/ m.shape = "nonmapping"
    \/ /\ m.shape = "mapping"
       /\ (~Truthy(m.kind) \/ m.meta \in {"absent", "null"} \/ ~Truthy(m.name))

\* C8: a non-empty document that lacks a kind or a name is skipped: no
\* create request is submitted for it, no ledger entry is appended for it,
\* and the job is not aborted at it.
C8_IncompleteDocumentSkipped ==
    \A j \in 1..Len(manifests) :
        LacksKindOrName(manifests[j]) =>
            /\ \A i \in 1..Len(create_requests) : create_requests[i].doc # j
            /\ (idx = j => pc = "create")
            /\ (idx > j => j \in skipped)

\* The readiness predicate as stated, on the object of a status event.
StatedReady(e) ==
    /\ e.type \in {"ADDED", "MODIFIED"}
    /\ e.object.has_status /\ e.object.has_spec
    /\ e.object.ready_replicas = e.object.replicas
    /\ e.object.generation = e.object.observed_generation

StatedReadyEvents == {e \in Events : StatedReady(e)}

\* C9: an event consumed by the watcher ends the Wait phase in Ready if
\* and only if it is ADDED or MODIFIED and its object has
\* status.readyReplicas = spec.replicas and metadata.generation =
\* status.observedGeneration: while subscribed, the loop body ends in
\* Ready on every event that satisfies the predicate, and a step that
\* reaches Ready is the step of no event that does not satisfy it.  That
\* step closes the stream and leaves the loop, so no later event is consumed.
C9_ReadinessPredicate ==
    /\ [](pc = "watching" =>
            /\ watch_outcome = "none"
            /\ \A e \in StatedReadyEvents : EventResult(e, deployment_bound) = "ready")
    /\ [][(pc = "watching" /\ watch_outcome' = "ready") =>
            /\ pc' = "hold" /\ ~watch_open'
            /\ \E e \in StatedReadyEvents : WatchEvent(e)
            /\ \A e \in Events \ StatedReadyEvents : ~WatchEvent(e)]_vars

C9_Witness ==
    /\ watch_outcome = "ready"
    /\ pc = "hold"
    /\ ~watch_open

HasDeployment(ledger) == \E i \in 1..Len(ledger) : ledger[i].kind = "Deployment"

WaitReturnedOrWatching ==
    pc \in {"watching", "hold", "delete"} \/ (pc = "exited" /\ CreateReturned)

\* C10: Wait opens a subscription if and only if the ledger holds a
\* Deployment entry; then exactly one is opened, filtered to the name of
\* the first Deployment entry in ledger order; otherwise Wait returns with
\* no subscription and no error.  Nothing is subscribed before Wait.
C10_SubscriptionIffDeployment ==
    /\ ~WaitReturnedOrWatching => subscriptions = <<>>
    /\ WaitReturnedOrWatching =>
        IF HasDeployment(created_resources_info)
        THEN /\ Len(subscriptions) = 1
             /\ \E i \in 1..Len(created_resources_info) :
                    /\ created_resources_info[i].kind = "Deployment"
                    /\ \A j \in 1..(i - 1) : created_resources_info[j].kind # "Deployment"
                    /\ subscriptions[1] = created_resources_info[i].name
             /\ watch_outcome # "noop"
        ELSE /\ subscriptions = <<>>
             /\ watch_outcome = "noop"
             /\ raised_in # "wait_for_deployment_ready"

C10_Witness ==
    /\ pc = "watching"
    /\ Len(created_resources_info) >= 3
    /\ created_resources_info[1].kind # "Deployment"
    /\ created_resources_info[2] = Ident("Deployment", "db")
    /\ created_resources_info[3] = Ident("Deployment", "app")
    /\ subscriptions = <<"db">>

C10_WitnessNoWorkload ==
    /\ pc = "hold"
    /\ created_resources_info = <<Ident("Service", "app")>>
    /\ subscriptions = <<>>

ManifestErrorOccurred == stream.absent \/ StreamMalformed

CreateFailureOccurred ==
    \E i \in 1..Len(create_requests) :
        create_requests[i].answer \in {"api_error", "exception"}

\* C11: the process exit status is non-zero if and only if a manifest
\* error (absent file, malformed stream) or a create failure other than
\* Conflict occurred; every other condition leaves the exit status at 0.
C11_ExitStatusPolicy ==
    pc = "exited" =>
        (exit_code # 0 <=> (ManifestErrorOccurred \/ CreateFailureOccurred))

\* C12: a watch stream is open only while the Wait phase is consuming it:
\* once Wait has returned (Hold, Delete, exit) no subscription is open, on
\* every exit path, and none is open before Wait either.
C12_SubscriptionClosed ==
    /\ pc # "watching" => ~watch_open
    /\ pc = "watching" => (watch_open /\ Len(subscriptions) = 1)

C12_Witness ==
    /\ pc = "delete"
    /\ Len(subscriptions) = 1
    /\ watch_outcome = "error"
    /\ ~watch_open

\* C13: while subscribed, a delivered event that does not satisfy the
\* readiness predicate, of any type and at any position in the stream,
\* does not end the phase: the loop body goes on to the next event.
C13_OnlyReadyEventEndsPhase ==
    pc = "watching" =>
        \A e \in Events \ StatedReadyEvents :
            EventResult(e, deployment_bound) = "continue"

\* C14: a create request answered with a failure other than Conflict is
\* the last create request of the run, it is the request of the document
\* the loop stopped at, and the step that receives the failure leaves the
\* ledger exactly as the earlier descriptors populated it.
C14_CreateAbortsImmediately ==
    /\ [](\A i \in 1..Len(create_requests) :
            create_requests[i].answer \in {"api_error", "exception"} =>
                /\ i = Len(create_requests)
                /\ create_requests[i].doc = idx
                /\ pc = "exited"
                /\ raised_in = "create_resources_from_yaml")
    /\ [][(/\ Len(create_requests') = Len(create_requests) + 1
           /\ create_requests'[Len(create_requests')].answer \in {"api_error", "exception"})
          => created_resources_info' = created_resources_info]_vars

C14_Witness ==
    /\ pc = "exited"
    /\ Len(manifests) = 2
    /\ Len(create_requests) = 1
    /\ create_requests[1].answer = "api_error"
    /\ create_requests[1].doc = 1

\* A step in which a create call returned successfully.
CreateSucceeds ==
    /\ Len(create_requests') = Len(create_requests) + 1
    /\ create_requests'[Len(create_requests')].answer = "created"

\* A step in which a create call was answered Conflict.
CreateConflicts ==
    /\ Len(create_requests') = Len(create_requests) + 1
    /\ create_requests'[Len(create_requests')].answer = "conflict"

LastDescriptor(reqs) == Ident(reqs[Len(reqs)].kind, reqs[Len(reqs)].name)

IdentsOf(s) == [i \in 1..Len(s) |-> ObjIdent(s[i])]

IsShaped(o) == o.shaped

\* C15 (as stated): a successful create appends exactly one ledger entry
\* for each returned object (the single object, or each element of the
\* list), carrying the returned object's kind and name.
C15_OneEntryPerReturnedObject ==
    [][CreateSucceeds =>
        created_resources_info' =
            created_resources_info \o IdentsOf(created_obj_or_list'.obj)]_vars

\* C15 (amended): a successful create appends one entry, with the returned
\* object's kind and name, for each returned object that exposes them; a
\* list element that does not gets no entry, and a single object that does
\* not gets one entry with the descriptor's kind and name.
C15_OneEntryPerShapedObject ==
    [][CreateSucceeds =>
        LET res == created_obj_or_list'
        IN  created_resources_info' =
                created_resources_info \o
                    (IF res.tag = "list" \/ res.obj[1].shaped
                     THEN IdentsOf(SelectSeq(res.obj, IsShaped))
                     ELSE <<LastDescriptor(create_requests')>>)]_vars

C15_Witness ==
    /\ pc = "create"
    /\ created_obj_or_list.tag = "list"
    /\ Len(created_obj_or_list.obj) = 2
    /\ created_obj_or_list.obj[1].shaped
    /\ ~created_obj_or_list.obj[2].shaped
    /\ created_resources_info = <<ObjIdent(created_obj_or_list.obj[1])>>

ConflictRequests == {i \in 1..Len(create_requests) : create_requests[i].answer = "conflict"}

RequestIdent(i) == Ident(create_requests[i].kind, create_requests[i].name)

\* C16 (as stated): a Conflict answer does not end the run, appends exactly
\* one ledger entry with the descriptor's kind and name, Create goes on to
\* the next descriptor, and on a run that exits 0 the conflicting resource
\* has had a delete request.
C16_ConflictTrackedAndDeleted ==
    /\ [](CompletedNormally =>
            \A i \in ConflictRequests : RequestIdent(i) \in Range(delete_requests))
    /\ [][CreateConflicts =>
            /\ created_resources_info' =
                    Append(created_resources_info, LastDescriptor(create_requests'))
            /\ idx' = idx + 1
            /\ pc' = "create"
            /\ exit_code' = NotExited]_vars

\* C16 (amended): the same, the delete request being promised only when
\* the conflicting descriptor is a Deployment or a Service.
C16_ConflictTrackedAndSupportedDeleted ==
    /\ [](CompletedNormally =>
            \A i \in ConflictRequests :
                create_requests[i].kind \in SupportedKinds =>
                    RequestIdent(i) \in Range(delete_requests))
    /\ [][CreateConflicts =>
            /\ created_resources_info' =
                    Append(created_resources_info, LastDescriptor(create_requests'))
            /\ idx' = idx + 1
            /\ pc' = "create"
            /\ exit_code' = NotExited]_vars

C16_Witness ==
    /\ CompletedNormally
    /\ \E i \in ConflictRequests :
        /\ create_requests[i].kind = "Deployment"
        /\ RequestIdent(i) \notin created_by_run
        /\ RequestIdent(i) \in Range(delete_requests)
        /\ i < Len(create_requests)

\* C17 (as stated): the ledger is never longer than the manifest has
\* documents.
C17_LedgerBoundedByDocuments ==
    Len(created_resources_info) <= Len(stream.docs)

\* C17 (amended): the ledger is never longer than the number of objects
\* the create calls returned plus the number of Conflict answers.
C17_LedgerBoundedByAnswers ==
    Len(created_resources_info) <= Cardinality(created_by_run) + Cardinality(ConflictRequests)

C17_Witness ==
    /\ CreateReturned
    /\ Len(stream.docs) = 1
    /\ Len(created_resources_info) = 2
    /\ Cardinality(created_by_run) = 2

IsProperPrefix(s, t) == Len(s) < Len(t) /\ SubSeq(t, 1, Len(s)) = s

\* C18: the ledger is empty when Create starts; it changes only during
\* Create and only by appending; Wait, Hold and Delete leave it as it is,
\* so at exit it is what it was when Create ended.
C18_LedgerAppendOnlyInCreate ==
    /\ [](pc = "main" => created_resources_info = <<>>)
    /\ [](create_requests = <<>> => created_resources_info = <<>>)
    /\ [][created_resources_info' # created_resources_info =>
            /\ pc = "create"
            /\ pc' = "create"
            /\ IsProperPrefix(created_resources_info, created_resources_info')]_vars

C18_Witness ==
    /\ CompletedNormally
    /\ Len(created_resources_info) = 2
    /\ Len(delete_requests) = 2
    /\ Len(subscriptions) = 1

\* An iteration of the delete loop is about to run on an entry whose kind
\* is neither Deployment nor Service.
AtUnsupportedEntry ==
    /\ pc = "delete"
    /\ del_idx <= Len(created_resources_info)
    /\ created_resources_info[Len(created_resources_info) + 1 - del_idx].kind
            \notin SupportedKinds

\* C19: in Delete, an entry of a kind other than Deployment or Service
\* causes no delete request and no error: the resource stays in the
\* cluster and the loop goes on to the next entry in reverse order.
C19_UnsupportedKindSkipped ==
    /\ [](\A j \in 1..Len(delete_requests) : delete_requests[j].kind \in SupportedKinds)
    /\ [][AtUnsupportedEntry =>
            /\ delete_requests' = delete_requests
            /\ cluster' = cluster
            /\ del_idx' = del_idx + 1
            /\ pc' = "delete"
            /\ exit_code' = NotExited
            /\ raised' = "none"]_vars

C19_Witness ==
    /\ CompletedNormally
    /\ Len(created_resources_info) = 2
    /\ created_resources_info[1].kind = "Deployment"
    /\ created_resources_info[2].kind = "ConfigMap"
    /\ created_resources_info[2] \in cluster
    /\ delete_requests = <<created_resources_info[1]>>

\* C20: the phases run in order and never overlap: create requests are
\* made only before any subscription, hold or delete; a subscription is
\* opened only after Create returned and before the hold; the hold happens
\* after Wait returned; delete visits happen only after the hold; and the
\* hold has happened exactly once whenever Delete is reached.
C20_PhasesInOrder ==
    /\ [](pc \in {"main", "create", "wait"} =>
            /\ subscriptions = <<>>
            /\ watch_outcome = "none"
            /\ hold_count = 0
            /\ delete_visits = <<>>)
    /\ [](pc \in {"watching", "hold"} =>
            /\ hold_count = 0
            /\ delete_visits = <<>>)
    /\ [](pc = "hold" => watch_outcome \in {"noop", "ready", "timeout", "error"} /\ ~watch_open)
    /\ [](hold_count \in {0, 1})
    /\ []((pc = "delete" \/ delete_visits # <<>> \/ CompletedNormally) =>
            /\ hold_count = 1
            /\ watch_outcome \in {"noop", "ready", "timeout", "error"})
    /\ [][create_requests' # create_requests => (pc = "create" /\ pc' \in {"create", "exited"})]_vars
    /\ [][subscriptions' # subscriptions => (pc = "wait" /\ pc' = "watching")]_vars
    /\ [][hold_count' # hold_count => (pc = "hold" /\ pc' = "delete")]_vars
    /\ [][delete_visits' # delete_visits => pc = "delete"]_vars

C20_Witness ==
    /\ pc = "delete"
    /\ hold_count = 1
    /\ watch_outcome = "timeout"
    /\ Len(create_requests) = 2
    /\ Len(delete_requests) = 1

====
